---- MODULE Spec2Model ----
(***************************************************************************)
(* Plant water-stress scripts (src/llava.py, src/gemine.py, src/main.py).  *)
(*                                                                         *)
(* Numbers.  The scripts compute with Python floats; the model computes    *)
(* with exact fixed-point numbers: a stress value x is represented by the  *)
(* integer x * Scale.  Scale is chosen so that every division the code     *)
(* performs on the modelled input grids is exact.  Soil multipliers and    *)
(* base water volumes are represented in tenths, rounded results           *)
(* (round(x, 2)) in hundredths.  The model is the real-number reading of   *)
(* the float arithmetic: a float result that differs from the real value   *)
(* in its last bits (0.29999999999999993 for 0.3) is taken as the real     *)
(* value, except in round2, where a tie may fall to either side.           *)
(*                                                                         *)
(* Text.  A Python str is a sequence of one-character strings, so that     *)
(* lower(), strip(), the "in" substring test and the digit scrub are       *)
(* computed character by character.                                        *)
(***************************************************************************)
EXTENDS Integers, Sequences, FiniteSets, TLC

VARIABLES
  script,    \* which of the three scripts runs
  image,     \* what is at the hard-coded image path
  pc,        \* the position of the run in the script
  globals,   \* the module-level names bound so far, with their values
  printed,   \* what print() has written, in order
  ended,     \* "running", or how the process ended
  call       \* a single function applied to arguments (unit harness)

vars == <<script, image, pc, globals, printed, ended, call>>

\* ------------------------------------------------------------ bounds

\* Temperatures are 25 + 5k degrees for k in -TempSpan..TempSpan.
TempSpan == 4
\* Humidities are 65 + 5k percent for k in -HumSpan..HumSpan.
HumSpan == 11
\* Vegetation indices are k / VegRes for k in -VegRes..VegRes.
VegRes == 4
\* Stress scores handed to irrigation_recommendation alone are StressRes
\* equal steps from 0 upwards.
StressRes == 32

\* Fixed-point unit: the real number x is the integer x * Scale.
Scale == 4000 * VegRes

Temps == {25 + 5 * k : k \in (0 - TempSpan)..TempSpan}
Hums == {65 + 5 * k : k \in (0 - HumSpan)..HumSpan}
RgviGrid == {(k * Scale) \div VegRes : k \in (0 - VegRes)..VegRes}
StressGrid == {k * (Scale \div StressRes) : k \in 0..StressRes}

\* ------------------------------------------------------------ numbers

Abs(x) == IF x < 0 THEN 0 - x ELSE x
Max(a, b) == IF b > a THEN b ELSE a
Min(a, b) == IF b < a THEN b ELSE a

\* round(x, 2) of the real number num/den (den > 0, num >= 0), in hundredths.
\* Python rounds the float's exact binary value; where the real value lies
\* exactly half-way between two hundredths the float may lie on either side,
\* so both neighbours are possible results.
round2(num, den) ==
  LET n == 100 * num
      q == n \div den
      r == n % den
  IN IF 2 * r < den THEN {q}
     ELSE IF 2 * r > den THEN {q + 1}
     ELSE {q, q + 1}

\* ------------------------------------------------------------ text

UpperCase == <<"A","B","C","D","E","F","G","H","I","J","K","L","M",
               "N","O","P","Q","R","S","T","U","V","W","X","Y","Z">>
LowerCase == <<"a","b","c","d","e","f","g","h","i","j","k","l","m",
               "n","o","p","q","r","s","t","u","v","w","x","y","z">>
Digits == <<"0","1","2","3","4","5","6","7","8","9">>
Whitespace == {" ", "\n", "\t"}

\* str.lower(), one character.
lower_ch(ch) ==
  IF \E i \in 1..26 : UpperCase[i] = ch
  THEN LowerCase[CHOOSE i \in 1..26 : UpperCase[i] = ch]
  ELSE ch

\* str.upper(), one character (used to build inputs only).
upper_ch(ch) ==
  IF \E i \in 1..26 : LowerCase[i] = ch
  THEN UpperCase[CHOOSE i \in 1..26 : LowerCase[i] = ch]
  ELSE ch

\* s.lower()
lower(s) == [i \in 1..Len(s) |-> lower_ch(s[i])]

upper(s) == [i \in 1..Len(s) |-> upper_ch(s[i])]

capitalize(s) == IF s = <<>> THEN s ELSE <<upper_ch(s[1])>> \o Tail(s)

\* sub in s
contains(sub, s) ==
  \E i \in 0..(Len(s) - Len(sub)) : SubSeq(s, i + 1, i + Len(sub)) = sub

\* s.strip()
strip(s) ==
  LET keep == {i \in 1..Len(s) : s[i] \notin Whitespace}
  IN IF keep = {} THEN <<>>
     ELSE LET lo == CHOOSE i \in keep : \A j \in keep : i <= j
              hi == CHOOSE i \in keep : \A j \in keep : j <= i
          IN SubSeq(s, lo, hi)

\* ch.isdigit() for the ASCII digits
isdigit(ch) == \E i \in 1..10 : Digits[i] = ch

digit_value(ch) == (CHOOSE i \in 1..10 : Digits[i] = ch) - 1

sandy == <<"s","a","n","d","y">>
clay == <<"c","l","a","y">>
loam == <<"l","o","a","m">>
no == <<"n","o">>
ErrorPrefix == <<"E","r","r","o","r",":"," ">>
ErrorValidatingImage ==
  <<"E","r","r","o","r"," ","v","a","l","i","d","a","t","i","n","g"," ","i","m","a","g","e">>
ErrorLLMFailed ==
  <<"E","r","r","o","r",":"," ","L","L","M"," ","f","a","i","l","e","d">>

\* ------------------------------------------------------------ scoring

\* Mutant: the temperature deviation without abs().
compute_weather_stress_signed(temp, hum) ==
  LET temp_stress == Max(0, ((temp - 25) * Scale) \div 20)
      hum_stress == Max(0, (Abs(hum - 65) * Scale) \div 50)
  IN Min(Scale, (temp_stress + hum_stress) \div 2)

\* llava.py 69-73, gemine.py 35-38.  Temperatures and humidities are plain
\* integers; the result is a stress value (times Scale).
compute_weather_stress(temp, hum) ==
  LET temp_stress == Max(0, (Abs(temp - 25) * Scale) \div 20)
      hum_stress == Max(0, (Abs(hum - 65) * Scale) \div 50)
  IN Min(Scale, (temp_stress + hum_stress) \div 2)

\* Mutant: the match without lower().
soil_modifier_case_sensitive(soil) ==
  IF contains(sandy, soil) THEN 12
  ELSE IF contains(clay, soil) THEN 11
  ELSE IF contains(loam, soil) THEN 9
  ELSE 10

\* llava.py 75-81, gemine.py 40-45.  The multiplier in tenths.
soil_modifier(soil) ==
  LET s == lower(soil)
  IN IF contains(sandy, s) THEN 12
     ELSE IF contains(clay, s) THEN 11
     ELSE IF contains(loam, s) THEN 9
     ELSE 10

\* Mutant: the normalised index not inverted.
vegetation_stress_not_inverted(rgvi) ==
  Max(0, Min(Scale, (rgvi + Scale) \div 2))

\* llava.py 170, gemine.py 122: 1 - max(0, min(1, (rgvi_score + 1) / 2))
vegetation_stress(rgvi) ==
  Scale - Max(0, Min(Scale, (rgvi + Scale) \div 2))

\* Mutant: no min(1, ...) after the soil multiplier.
combine_stress_uncapped(ndvi, weather, soil) ==
  (((ndvi \div 2) + (weather \div 2)) * soil_modifier(soil)) \div 10

\* Mutant: min(1, ...) taken before the soil multiplier instead of after.
combine_stress_capped_early(ndvi, weather, soil) ==
  (Min(Scale, (ndvi \div 2) + (weather \div 2)) * soil_modifier(soil)) \div 10

\* llava.py 176-177, gemine.py 124-125
combine_stress(ndvi, weather, soil) ==
  Min(Scale, (((ndvi \div 2) + (weather \div 2)) * soil_modifier(soil)) \div 10)

Low == "Low water stress - plant looks healthy."
Moderate == "Moderate water stress - some irrigation may help."
High == "High water stress - urgent watering required."

\* Mutant: <= in place of < at both thresholds.
status_of_inclusive(combined) ==
  IF 10 * combined <= 3 * Scale THEN Low
  ELSE IF 10 * combined <= 6 * Scale THEN Moderate
  ELSE High

\* llava.py 179-184, gemine.py 127-132
status_of(combined) ==
  IF 10 * combined < 3 * Scale THEN Low
  ELSE IF 10 * combined < 6 * Scale THEN Moderate
  ELSE High

\* Mutant: an unrecognised size falls back to 1.0 instead of 1.5.
base_water_default_one(plant_size) ==
  CASE plant_size = "small" -> 5
    [] plant_size = "medium" -> 15
    [] plant_size = "large" -> 30
    [] OTHER -> 10

\* llava.py 109, gemine.py 48: base_water.get(plant_size, 1.5), in tenths.
base_water(plant_size) ==
  CASE plant_size = "small" -> 5
    [] plant_size = "medium" -> 15
    [] plant_size = "large" -> 30
    [] OTHER -> 15

\* llava.py 105-110, gemine.py 47-49: the possible values, in hundredths of
\* a litre, of round(base_water.get(plant_size, 1.5) * stress_score * 2, 2).
irrigation_recommendation(stress_score, plant_size) ==
  round2(base_water(plant_size) * stress_score * 2, 10 * Scale)

\* llava.py 101-103, gemine.py 56-57: round(stress_score, 2), in hundredths.
water_deficit_index(stress_score) == round2(stress_score, Scale)

\* llava.py 167-184, gemine.py 119-132: the values the main script binds.
stress_report(rgvi, temp, hum, soil) ==
  LET ndvi == vegetation_stress(rgvi)
      weather == compute_weather_stress(temp, hum)
      combined == combine_stress(ndvi, weather, soil)
  IN [ndvi_stress |-> ndvi, weather_stress |-> weather,
      combined_stress |-> combined, stress_status |-> status_of(combined)]

\* ------------------------------------------------------------ self-rating

None == <<>>

\* The value of a string of ASCII digits (0 for the empty string).
RECURSIVE digits_value(_)
digits_value(ds) ==
  IF ds = <<>> THEN 0
  ELSE 10 * digits_value(SubSeq(ds, 1, Len(ds) - 1)) + digit_value(ds[Len(ds)])

RECURSIVE pow10(_)
pow10(n) == IF n = 0 THEN 1 ELSE 10 * pow10(n - 1)

\* llava.py 133-138, gemine.py 85-92: keep the digits and points of the reply,
\* float() the rest, clamp to [0,100]; None when float() raises.  float()
\* of a string of digits and points raises unless there is at least one
\* digit and at most one point.  The result is the fraction <<num, den>>.
parse_confidence(text) ==
  LET number == SelectSeq(text, LAMBDA ch : isdigit(ch) \/ ch = ".")
      points == {i \in 1..Len(number) : number[i] = "."}
      ds == SelectSeq(number, isdigit)
  IN IF Cardinality(points) > 1 \/ ds = <<>> THEN None
     ELSE LET p == IF points = {} THEN Len(number) + 1 ELSE CHOOSE i \in points : TRUE
              den == pow10(Len(number) - p + (IF points = {} THEN 1 ELSE 0))
              num == digits_value(ds)
          IN IF num > 100 * den THEN <<100, 1>>
             ELSE IF num < 0 THEN <<0, 1>>
             ELSE <<num, den>>

\* ------------------------------------------------------------ remote calls

Text_Yes == <<"Y","e","s">>
Text_YesNewline == <<" ","Y","e","s","\n">>
Text_No == <<"N","o">>
Text_NO == <<"N","O",".">>
Text_Unknown == <<"U","n","k","n","o","w","n">>
Text_Maybe == <<"M","a","y","b","e">>
Text_TimedOut == <<"t","i","m","e","d"," ","o","u","t">>
Text_Errno == <<"E","r","r","n","o"," ","1","1","1">>
Text_Advice == <<"W","a","t","e","r"," ","i","t",".","\n">>

ValidationReplies ==
  {Text_Yes, Text_YesNewline, Text_No, Text_NO, Text_Unknown, Text_Maybe}
SummaryReplies == {Text_Advice}
RatingReplies ==
  { <<"8","5">>, <<"9","5",".","5","%">>, <<"9","0"," ","o","f"," ","1","0","0">>,
    <<"1",".","2",".","3">>, <<"n","/","a">>, <<>>, <<"-",".","5","\n">>, <<".">> }
ExceptionMessages == {Text_TimedOut, Text_Errno}

\* What a remote call can do: answer 200 with a text, answer with another
\* status, or raise (connection refused, timeout, a body that is not JSON).
Outcomes(replies) ==
  [kind : {"ok"}, text : replies]
    \cup [kind : {"status"}, text : {<<>>}]
    \cup [kind : {"raise"}, text : ExceptionMessages]

\* llava.py 45-52: validate_image's try/except around requests.post.
validate_image(o) ==
  CASE o.kind = "ok" -> strip(o.text)
    [] o.kind = "status" -> ErrorValidatingImage
    [] OTHER -> ErrorPrefix \o o.text

\* llava.py 90-97: ask_llm's try/except around requests.post.
ask_llm(o) ==
  CASE o.kind = "ok" -> strip(o.text)
    [] o.kind = "status" -> ErrorLLMFailed
    [] OTHER -> ErrorPrefix \o o.text

\* llava.py 131-138: get_accuracy_from_llm.
get_accuracy_from_llm(o) == parse_confidence(ask_llm(o))

\* gemine.py 60-70 and 83-84: generate_content and response.text are not
\* inside any try; a failed call raises through the caller.
gemini_raises(o) == o.kind # "ok"

\* gemine.py 84-92: get_accuracy_from_gemini on a delivered reply.
get_accuracy_from_gemini(o) == parse_confidence(strip(o.text))

\* ------------------------------------------------------------ the scripts

Scripts == {"llava.py", "gemine.py", "main.py"}
Images == {"missing", "unreadable", "blank", "plant"}
RunHums == {10, 40, 65, 75, 120}
RunRgvi == {0 - Scale, 0, Scale}
RunSoils == {sandy, upper(clay), capitalize(loam) \o <<"y">>, <<"p","e","a","t">>}

bind(name, value) == globals @@ (name :> value)
bound(name) == name \in DOMAIN globals
say(line) == Append(printed, line)

no_call == [fn |-> "none"]

Init ==
  /\ script \in Scripts
  /\ image \in Images
  /\ pc = IF script = "main.py" THEN "open_image" ELSE "check_file"
  /\ globals = <<>>
  /\ printed = <<>>
  /\ ended = "running"
  /\ call = no_call

\* llava.py 143-145, gemine.py 95-97
CheckFile ==
  /\ pc = "check_file" /\ ended = "running"
  /\ IF image = "missing"
     THEN /\ printed' = say("Image not found")
          /\ ended' = "sys.exit"
          /\ pc' = pc
     ELSE /\ pc' = "load_image"
          /\ UNCHANGED <<printed, ended>>
  /\ UNCHANGED <<script, image, globals, call>>

\* llava.py 147-150, gemine.py 99-102.  Image.open raises on a file that is
\* no image; nothing catches it.
LoadImage ==
  /\ pc = "load_image" /\ ended = "running"
  /\ CASE image = "unreadable" ->
            /\ ended' = "unhandled: image"
            /\ UNCHANGED <<pc, printed>>
       [] image = "blank" ->
            /\ printed' = say("blank image")
            /\ ended' = "sys.exit"
            /\ pc' = pc
       [] OTHER ->
            /\ pc' = "validate"
            /\ UNCHANGED <<printed, ended>>
  /\ UNCHANGED <<script, image, globals, call>>

\* llava.py 153-155, gemine.py 105-107
Validate ==
  /\ pc = "validate" /\ ended = "running"
  /\ \E o \in Outcomes(ValidationReplies) :
       IF script = "gemine.py" /\ gemini_raises(o)
       THEN /\ ended' = "unhandled: remote call"
            /\ UNCHANGED <<pc, globals, printed>>
       ELSE /\ globals' = bind("validation",
                     IF script = "llava.py" THEN validate_image(o) ELSE strip(o.text))
            /\ printed' = say("verdict")
            /\ pc' = "verdict"
            /\ ended' = ended
  /\ UNCHANGED <<script, image, call>>

\* Mutant: the verdict test without lower().
is_rejected_case_sensitive(validation) == contains(no, validation)

\* llava.py 156, gemine.py 108
is_rejected(validation) == contains(no, lower(validation))

\* llava.py 156-158, gemine.py 108-110
Verdict ==
  /\ pc = "verdict" /\ ended = "running"
  /\ IF is_rejected(globals["validation"])
     THEN /\ printed' = say("not a valid plant image")
          /\ ended' = "sys.exit"
          /\ pc' = pc
     ELSE /\ pc' = "read_inputs"
          /\ UNCHANGED <<printed, ended>>
  /\ UNCHANGED <<script, image, globals, call>>

\* llava.py 161-165, gemine.py 113-117.  float() of what the user typed
\* raises on text that is no number; nothing catches it.
ReadInputs ==
  /\ pc = "read_inputs" /\ ended = "running"
  /\ \/ /\ ended' = "unhandled: input"
        /\ printed' = say("prompt")
        /\ UNCHANGED <<pc, globals>>
     \/ \E t \in Temps, h \in RunHums, soil \in RunSoils :
          /\ globals' = bind("temp_c", t) @@ ("humidity" :> h)
                           @@ ("soil_type" :> IF script = "llava.py" THEN strip(soil) ELSE soil)
          /\ printed' = say("prompt")
          /\ pc' = "compute"
          /\ ended' = ended
  /\ UNCHANGED <<script, image, call>>

\* llava.py 168-189, gemine.py 120-137.  The vegetation index of the image,
\* a mean of values clipped to [-1,1], is an input here.
Compute ==
  /\ pc = "compute" /\ ended = "running"
  /\ \E rgvi \in RunRgvi :
       LET r == stress_report(rgvi, globals["temp_c"], globals["humidity"],
                              globals["soil_type"])
       IN \E w \in water_deficit_index(r.combined_stress),
             i \in irrigation_recommendation(r.combined_stress, "medium") :
            globals' = globals @@ ("rgvi_score" :> rgvi)
                         @@ ("ndvi_stress" :> r.ndvi_stress)
                         @@ ("weather_stress" :> r.weather_stress)
                         @@ ("combined_stress" :> r.combined_stress)
                         @@ ("stress_status" :> r.stress_status)
                         @@ ("wdi" :> w) @@ ("irrigation_need" :> i)
  /\ pc' = "explain"
  /\ UNCHANGED <<script, image, printed, ended, call>>

\* llava.py 210, gemine.py 157
Explain ==
  /\ pc = "explain" /\ ended = "running"
  /\ \E o \in Outcomes(SummaryReplies) :
       IF script = "gemine.py" /\ gemini_raises(o)
       THEN /\ ended' = "unhandled: remote call"
            /\ UNCHANGED <<pc, globals>>
       ELSE /\ globals' = bind("expert_summary",
                     IF script = "llava.py" THEN ask_llm(o) ELSE strip(o.text))
            /\ pc' = "rate"
            /\ ended' = ended
  /\ UNCHANGED <<script, image, printed, call>>

\* llava.py 213, gemine.py 160
Rate ==
  /\ pc = "rate" /\ ended = "running"
  /\ \E o \in Outcomes(RatingReplies) :
       IF script = "gemine.py" /\ gemini_raises(o)
       THEN /\ ended' = "unhandled: remote call"
            /\ UNCHANGED <<pc, globals>>
       ELSE /\ globals' = bind("accuracy_percent",
                     IF script = "llava.py" THEN get_accuracy_from_llm(o)
                     ELSE get_accuracy_from_gemini(o))
            /\ pc' = "report"
            /\ ended' = ended
  /\ UNCHANGED <<script, image, printed, call>>

\* llava.py 216-230, gemine.py 163-179
Report ==
  /\ pc = "report" /\ ended = "running"
  /\ printed' = say("report")
  /\ ended' = "end of script"
  /\ UNCHANGED <<script, image, pc, globals, call>>

\* main.py 8-13
MainOpenImage ==
  /\ pc = "open_image" /\ ended = "running"
  /\ IF image \in {"missing", "unreadable"}
     THEN ended' = "unhandled: image" /\ pc' = pc
     ELSE pc' = "post" /\ ended' = ended
  /\ UNCHANGED <<script, image, globals, printed, call>>

\* main.py 25
MainPost ==
  /\ pc = "post" /\ ended = "running"
  /\ \E o \in Outcomes(SummaryReplies) :
       IF o.kind = "raise"
       THEN /\ ended' = "unhandled: remote call"
            /\ UNCHANGED <<pc, globals>>
       ELSE /\ globals' = bind("response", o)
            /\ pc' = "show"
            /\ ended' = ended
  /\ UNCHANGED <<script, image, printed, call>>

\* main.py 28-32
MainShow ==
  /\ pc = "show" /\ ended = "running"
  /\ printed' = say(IF globals["response"].kind = "ok" THEN "result" ELSE "failed with status code")
  /\ ended' = "end of script"
  /\ UNCHANGED <<script, image, pc, globals, call>>

Next ==
  \/ CheckFile \/ LoadImage \/ Validate \/ Verdict \/ ReadInputs \/ Compute
  \/ Explain \/ Rate \/ Report
  \/ MainOpenImage \/ MainPost \/ MainShow

Spec == Init /\ [][Next]_vars

\* ------------------------------------------------------------ unit harness
\* The scoring functions applied one at a time to arguments drawn from the
\* input grids, as a test of llava.py's or gemine.py's functions would.

SoilWords == {sandy, clay, loam, <<"p","e","a","t">>, <<"s","a","n","d">>, <<"y">>, <<>>}
SoilSpellings == UNION {{w, upper(w), capitalize(w)} : w \in SoilWords}
SoilInputs == {a \o sep \o b : a \in SoilSpellings, b \in SoilSpellings, sep \in {<<>>, <<" ">>}}
PlantSizes == {"small", "medium", "large", "huge", ""}

FnInit ==
  /\ script \in {"llava.py", "gemine.py"}
  /\ image = "plant"
  /\ pc = "check_file"
  /\ globals = <<>>
  /\ printed = <<>>
  /\ ended = "running"
  /\ call = no_call

CallWeatherStress ==
  /\ call = no_call
  /\ \E t \in Temps, h \in Hums :
       call' = [fn |-> "compute_weather_stress", args |-> <<t, h>>,
                ret |-> compute_weather_stress(t, h)]
  /\ UNCHANGED <<script, image, pc, globals, printed, ended>>

CallSoilModifier ==
  /\ call = no_call
  /\ \E soil \in SoilInputs :
       call' = [fn |-> "soil_modifier", args |-> <<soil>>, ret |-> soil_modifier(soil)]
  /\ UNCHANGED <<script, image, pc, globals, printed, ended>>

CallIrrigation ==
  /\ call = no_call
  /\ \E stress \in StressGrid, size \in PlantSizes :
       \E r \in irrigation_recommendation(stress, size) :
         call' = [fn |-> "irrigation_recommendation", args |-> <<stress, size>>, ret |-> r]
  /\ UNCHANGED <<script, image, pc, globals, printed, ended>>

CallStressReport ==
  /\ call = no_call
  /\ \E rgvi \in RgviGrid, t \in Temps, h \in Hums, soil \in RunSoils :
       call' = [fn |-> "stress_report", args |-> <<rgvi, t, h, soil>>,
                ret |-> stress_report(rgvi, t, h, soil)]
  /\ UNCHANGED <<script, image, pc, globals, printed, ended>>

Return ==
  /\ call # no_call
  /\ call' = no_call
  /\ UNCHANGED <<script, image, pc, globals, printed, ended>>

FnNext ==
  \/ CallWeatherStress \/ CallSoilModifier \/ CallIrrigation \/ CallStressReport
  \/ Return

FnSpec == FnInit /\ [][FnNext]_vars

\* ============================================================ claims

AfterVerdict == {"read_inputs", "compute", "explain", "rate", "report"}
FatalMessages == {"Image not found", "blank image", "not a valid plant image"}
Printed(line) == \E i \in 1..Len(printed) : printed[i] = line
Exited == ended = "sys.exit"
Computed == bound("combined_stress")
Clamp(x, lo, hi) == Max(lo, Min(hi, x))

\* C1: whenever the pipeline of llava.py or gemine.py has computed the
\* combined stress score, it lies within [0,1], whatever the vegetation
\* index, temperature, humidity and soil type were.
C1_CombinedStressInUnitInterval ==
  Computed => /\ globals["combined_stress"] >= 0
              /\ globals["combined_stress"] <= Scale

\* C1 witness: clay (multiplier 1.1) with maximal vegetation and weather
\* stress, where the product exceeds 1 before the cap.
C1_Witness ==
  /\ Computed
  /\ globals["soil_type"] = upper(clay)
  /\ globals["rgvi_score"] = 0 - Scale
  /\ globals["temp_c"] = 5 /\ globals["humidity"] = 120
  /\ globals["combined_stress"] = Scale

\* C2: a failed remote call (a raised exception or a non-200 answer) never
\* ends a script with an unhandled error.
C2_RemoteFailuresAreCaught == ended # "unhandled: remote call"

\* C3: from the verdict position (file check and blank check passed) the
\* script exits, without prompting, when the lower-cased validation reply
\* contains "no", and otherwise goes on to read the inputs; every exit is one
\* of the three fatal exits, and after an exit no weather input was read, no
\* stress was computed, no explanation was asked for, no report was printed.
C3_ExitInvariant ==
  /\ pc \in AfterVerdict => ~contains(no, lower(globals["validation"]))
  /\ Exited =>
       /\ printed # <<>> /\ printed[Len(printed)] \in FatalMessages
       /\ printed[Len(printed)] = "Image not found" <=> pc = "check_file"
       /\ printed[Len(printed)] = "blank image" <=> pc = "load_image"
       /\ printed[Len(printed)] = "not a valid plant image" <=> pc = "verdict"
       /\ pc = "verdict" => contains(no, lower(globals["validation"]))
       /\ ~Printed("prompt") /\ ~Printed("report")
       /\ ~bound("temp_c") /\ ~Computed
       /\ ~bound("expert_summary") /\ ~bound("accuracy_percent")

C3_VerdictStep ==
  (pc = "verdict" /\ ended = "running") =>
     IF contains(no, lower(globals["validation"]))
     THEN ended' = "sys.exit" /\ pc' = pc /\ globals' = globals
     ELSE ended' = "running" /\ pc' = "read_inputs"

C3_HaltsOnNegativeVerdict == []C3_ExitInvariant /\ [][C3_VerdictStep]_vars

\* C3 witness: the reply "NO." ended the run at the verdict.
C3_Witness ==
  /\ Exited /\ pc = "verdict"
  /\ globals["validation"] = Text_NO
  /\ printed[Len(printed)] = "not a valid plant image"

\* C4: the self-rating step never ends the script with an unhandled error,
\* and what it binds is None or a number within [0,100].
C4_SelfRatingNeverCrashes ==
  /\ pc = "rate" => ended = "running"
  /\ bound("accuracy_percent") =>
       \/ globals["accuracy_percent"] = None
       \/ /\ globals["accuracy_percent"][1] >= 0
          /\ globals["accuracy_percent"][1] <= 100 * globals["accuracy_percent"][2]

\* C4, on the replies that are delivered: what either script binds as
\* accuracy_percent is None or a number within [0,100].
C4_DeliveredRepliesParse ==
  bound("accuracy_percent") =>
     \/ globals["accuracy_percent"] = None
     \/ /\ globals["accuracy_percent"][1] >= 0
        /\ globals["accuracy_percent"][1] <= 100 * globals["accuracy_percent"][2]

\* C5: compute_weather_stress(25, 65) is 0; every result is within [0,1];
\* with the humidity fixed a larger |temp - 25| never gives a smaller result,
\* with the temperature fixed a larger |humidity - 65| never gives a smaller
\* result, and below the cap of 1 a larger deviation gives a larger result.
C5_WeatherStressMonotone ==
  call.fn = "compute_weather_stress" =>
    LET t == call.args[1]
        h == call.args[2]
    IN /\ (t = 25 /\ h = 65) => call.ret = 0
       /\ call.ret >= 0 /\ call.ret <= Scale
       /\ \A t2 \in Temps :
            LET other == compute_weather_stress(t2, h)
            IN /\ Abs(t2 - 25) >= Abs(t - 25) => other >= call.ret
               /\ (Abs(t2 - 25) > Abs(t - 25) /\ other < Scale) => other > call.ret
       /\ \A h2 \in Hums :
            LET other == compute_weather_stress(t, h2)
            IN /\ Abs(h2 - 65) >= Abs(h - 65) => other >= call.ret
               /\ (Abs(h2 - 65) > Abs(h - 65) /\ other < Scale) => other > call.ret

\* C5 witness: a cold, damp reading below the cap (10 degrees C, 90 %: 0.625).
C5_Witness ==
  /\ call.fn = "compute_weather_stress"
  /\ call.args = <<10, 90>>
  /\ 8 * call.ret = 5 * Scale

\* C6: soil_modifier gives 1.2 when the lower-cased soil type contains
\* "sandy", else 1.1 when it contains "clay", else 0.9 when it contains
\* "loam", else 1.0; the result is one of these four, and changing the case
\* of the letters does not change it.
C6_SoilModifierTable ==
  call.fn = "soil_modifier" =>
    LET soil == call.args[1]
        s == lower(soil)
        expected == IF contains(sandy, s) THEN 12
                    ELSE IF contains(clay, s) THEN 11
                    ELSE IF contains(loam, s) THEN 9
                    ELSE 10
    IN /\ call.ret \in {12, 11, 9, 10}
       /\ call.ret = expected
       /\ soil_modifier(upper(soil)) = call.ret
       /\ soil_modifier(lower(soil)) = call.ret

\* C6 witness: "Clay SANDY" holds both sandy and clay, in mixed case.
C6_Witness ==
  /\ call.fn = "soil_modifier"
  /\ call.args = <<capitalize(clay) \o <<" ">> \o upper(sandy)>>
  /\ call.ret = 12

SpecBaseWater(size) ==
  IF size = "small" THEN 5 ELSE IF size = "large" THEN 30 ELSE 15

\* C7 as stated: the result equals base x stress x 2 exactly (so it is 0 at
\* stress 0 and linear in the stress).
C7_IrrigationExactlyLinear ==
  call.fn = "irrigation_recommendation" =>
    call.ret * 10 * Scale = 100 * SpecBaseWater(call.args[2]) * call.args[1] * 2

\* C7 as amended: the result is base x stress x 2 rounded to two decimals: a
\* whole number of hundredths within 0.005 of the product, 0 at stress 0,
\* with base 0.5 (small), 1.5 (medium), 3.0 (large), 1.5 (anything else).
C7_IrrigationRoundedLinear ==
  call.fn = "irrigation_recommendation" =>
    LET exact == 100 * SpecBaseWater(call.args[2]) * call.args[1] * 2
        got == call.ret * 10 * Scale
    IN /\ 2 * Abs(got - exact) <= 10 * Scale
       /\ call.args[1] = 0 => call.ret = 0

\* C7 witness: an unrecognised size at stress 3/32: 1.5 x 0.09375 x 2 =
\* 0.28125, returned as 0.28.
C7_Witness ==
  /\ call.fn = "irrigation_recommendation"
  /\ call.args = <<3 * (Scale \div StressRes), "huge">>
  /\ call.ret = 28

\* C8: vegetation index -1.0, 45 degrees C, 10 % humidity and soil "sandy"
\* give a product above 1 that is clamped to a combined stress of exactly
\* 1.0, and the status "High water stress".
C8_WorstCaseIsHigh ==
  ( /\ Computed
    /\ globals["rgvi_score"] = 0 - Scale
    /\ globals["temp_c"] = 45 /\ globals["humidity"] = 10
    /\ globals["soil_type"] = sandy )
  => /\ globals["combined_stress"] = Scale
     /\ globals["stress_status"] = High
     /\ 12 * ((globals["ndvi_stress"] \div 2) + (globals["weather_stress"] \div 2))
          > 10 * Scale

\* C8 witness: that run, with its report printed.
C8_Witness ==
  /\ Printed("report")
  /\ globals["rgvi_score"] = 0 - Scale
  /\ globals["temp_c"] = 45 /\ globals["humidity"] = 10
  /\ globals["soil_type"] = sandy
  /\ globals["stress_status"] = High

\* C9: the status is Low when the combined stress is below 0.3, Moderate
\* when it is at least 0.3 and below 0.6, High otherwise; and vegetation
\* index 1.0, 25 degrees C, 65 % humidity and a loam soil give combined
\* stress 0 and the status Low.
C9_StatusThresholds ==
  Computed =>
    LET cs == globals["combined_stress"]
        st == globals["stress_status"]
    IN /\ st \in {Low, Moderate, High}
       /\ st = Low <=> 10 * cs < 3 * Scale
       /\ st = Moderate <=> (10 * cs >= 3 * Scale /\ 10 * cs < 6 * Scale)
       /\ st = High <=> 10 * cs >= 6 * Scale
       /\ ( /\ globals["rgvi_score"] = Scale
            /\ globals["temp_c"] = 25 /\ globals["humidity"] = 65
            /\ contains(loam, lower(globals["soil_type"])) )
          => (cs = 0 /\ st = Low)

\* C9 witness: the healthy plant in ideal weather on loamy soil.
C9_Witness ==
  /\ Computed
  /\ globals["rgvi_score"] = Scale
  /\ globals["temp_c"] = 25 /\ globals["humidity"] = 65
  /\ globals["soil_type"] = capitalize(loam) \o <<"y">>
  /\ globals["stress_status"] = Low

\* The combined stress as section 4.2 of the specification writes it.
SpecVegStress(rgvi) == Scale - Clamp((rgvi + Scale) \div 2, 0, Scale)
SpecCombined(rgvi, temp, hum, soil) ==
  LET blend == Clamp((SpecVegStress(rgvi) \div 2)
                       + (compute_weather_stress(temp, hum) \div 2), 0, Scale)
  IN Clamp((blend * soil_modifier(soil)) \div 10, 0, Scale)

\* C10: the combined stress the code computes equals the specified
\* clamp(clamp(0.5 veg + 0.5 weather, 0, 1) x soil, 0, 1), with the
\* vegetation stress 1 - clamp((index + 1)/2, 0, 1).
C10_CodeEqualsSpecifiedClamp ==
  call.fn = "stress_report" =>
    /\ call.ret.ndvi_stress = SpecVegStress(call.args[1])
    /\ call.ret.combined_stress =
         SpecCombined(call.args[1], call.args[2], call.args[3], call.args[4])

\* C10 witness: sandy soil with a blend of 0.925, which the multiplier
\* lifts above 1 and the final clamp brings back to 1.
C10_Witness ==
  /\ call.fn = "stress_report"
  /\ call.args = <<0 - Scale, 5, 100, sandy>>
  /\ call.ret.combined_stress = Scale
  /\ call.ret.weather_stress < Scale

====
